---------------------------- MODULE Spec2Model ----------------------------
(***************************************************************************)
(* Dice roulette (src/dice_roulette/src/main.rs): game_loop, roll_dice and *)
(* spawn_die as a state machine.                                           *)
(*                                                                         *)
(* Threads: the session (the caller of game_loop), the hand thread, the    *)
(* evaluation ("logic") thread, and one die thread per die of the round    *)
(* being rolled.  Channels are std::sync::mpsc channels: unbounded FIFO    *)
(* queues; a receive on an empty queue blocks while a sender is alive and  *)
(* reports end-of-stream once every sender has been dropped; a send fails  *)
(* (and the unwrap panics) once the receiver has been dropped.             *)
(*                                                                         *)
(* A panic unwinds the panicking thread only, dropping the channel ends    *)
(* that thread owns.  thread::spawn panics when the OS cannot create a     *)
(* thread; gen_range panics on an empty range (number_of_sides < 1).       *)
(***************************************************************************)
EXTENDS Integers, Sequences, FiniteSets, TLC

(***************************************************************************)
(* Bounds.  I32_MAX stands for i32::MAX (main.rs:280), the largest value   *)
(* of DiceHand.number_of_dice, scaled down so that a round's parity        *)
(* difference can exceed it with a handful of dice.  MaxSides stands for   *)
(* the largest number_of_sides tried (an i8 in the source).  MaxRounds     *)
(* caps the number of rounds the hand thread starts.                       *)
(***************************************************************************)
I32_MAX == 2

MaxSides == 3

MaxRounds == 2

VARIABLES
    starting_hand,  \* game_loop's argument: [number_of_dice, number_of_sides]
    main_pc,        \* position of the session thread in game_loop
    total_score,    \* game_loop's accumulator
    hand_pc,        \* position of the hand thread
    number_of_dice, \* the hand thread's loop variable (roll_dice's hand)
    eval_pc,        \* position of the evaluation thread
    dice_totals,    \* the evaluation thread's loop variable
    next_hand,      \* the binding of the match's second arm
    q_hand,         \* messages in flight on (tx_hand, rx_hand)
    q_total,        \* messages in flight on (tx_total, rx_total)
    q_update,       \* messages in flight on (tx_update, rx_update)
    q_die,          \* messages in flight on roll_dice's (tx, rx)
    live,           \* which channel ends have not been dropped yet
    spawned,        \* spawn_die's loop counter
    die,            \* how many die threads of the current roll_dice call
                    \* are in each position
    odd_total,      \* roll_dice's accumulators
    even_total,
    round,          \* history: number of roll_dice calls started
    arrival,        \* history: die values roll_dice has received, in order
    round_totals,   \* history: the DiceRollTotal of every roll_dice that returned
    eval_round,     \* history: number of DiceRollTotals the evaluation received
    received,       \* history: updates the session has received, in order
    finished,       \* history: the evaluation took the `0 =>` arm
    failed,         \* history: some thread panicked
    file,           \* the score file: whether it exists, and its bytes
    scores,         \* the BTreeSet read_state_from_file returned, in
                    \* iteration order
    score_slice,    \* the slice given to save_state_to_file
    store_pc,       \* position of the caller of the score store
    io,             \* history: how the file operations of the last save
                    \* and the last read ended
    loaded,         \* history: the scores main read at start-up
    played,         \* history: the scores of the games main has run
    announced       \* history: for each game, whether main printed
                    \* "New high score"

vars == <<starting_hand, main_pc, total_score, hand_pc, number_of_dice,
          eval_pc, dice_totals, next_hand, q_hand, q_total, q_update, q_die,
          live, spawned, die, odd_total, even_total, round, arrival,
          round_totals, eval_round, received, finished, failed,
          file, scores, score_slice, store_pc, io, loaded, played,
          announced>>

mainHistory == <<loaded, played, announced>>

NoHistory ==
    /\ loaded = <<>>
    /\ played = <<>>
    /\ announced = <<>>

storeVars == <<file, scores, score_slice, store_pc, io, mainHistory>>

NoFile == [exists |-> FALSE, bytes |-> <<>>]

FileOf(bytes) == [exists |-> TRUE, bytes |-> bytes]

NoIo == [save |-> "none", open |-> "none"]

\* The score store before main or a test has touched it.
StoreIdle ==
    /\ file = NoFile
    /\ scores = <<>>
    /\ score_slice = <<>>
    /\ store_pc = "idle"
    /\ io = NoIo
    /\ NoHistory

Ends == {"tx_hand", "rx_hand", "tx_total", "rx_total",
         "tx_update", "rx_update", "tx", "rx"}

\* Positions of a die thread: before its send, after its send with tx_die
\* still held, returned, panicked.
DiePositions == {"running", "sent", "done", "panicked"}

NoDice == [p \in DiePositions |-> 0]

\* One die thread moves from position `from` to position `to`.
Move(d, from, to) == [d EXCEPT ![from] = @ - 1, ![to] = @ + 1]

Drop(l, ends) == [e \in Ends |-> IF e \in ends THEN FALSE ELSE l[e]]

Create(l, ends) == [e \in Ends |-> IF e \in ends THEN TRUE ELSE l[e]]

----------------------------------------------------------------------------
(* Pure functions of the source. *)

Clamp(x, lo, hi) == IF x < lo THEN lo ELSE IF x > hi THEN hi ELSE x

\* parity_difference with the operands exchanged.
parity_difference_swapped(t) == t.even - t.odd

\* DiceRollTotal::parity_difference
parity_difference(t) == t.odd - t.even

\* sum that leaves the even total out.
sum_oddOnly(t) == t.odd

\* DiceRollTotal::sum
sum(t) == t.odd + t.even

\* Dice::new without the `+ 1`.
Dice_new_zeroBased(number_of_sides) == 0..(number_of_sides - 1)

\* Dice::new: the values gen_range(0..number_of_sides) + 1 can give;
\* empty when the range is empty, where gen_range panics.
Dice_new(number_of_sides) == {r + 1 : r \in 0..(number_of_sides - 1)}

\* MatchValue clamped from above only.
MatchValue_noFloor(t) ==
    IF parity_difference(t) > I32_MAX THEN I32_MAX ELSE parity_difference(t)

\* The expression matched in the evaluation thread:
\* parity_difference().clamp(0, i32::MAX as i64) as i32
MatchValue(t) == Clamp(parity_difference(t), 0, I32_MAX)

\* Tally with the two arms exchanged.
Tally_swapped(t, roll) ==
    IF roll % 2 = 0
    THEN [even |-> t.even, odd |-> t.odd + roll]
    ELSE [even |-> t.even + roll, odd |-> t.odd]

\* Tally with `=` written for `+=` in the odd arm.
Tally_overwriteOdd(t, roll) ==
    IF roll % 2 = 0
    THEN [even |-> t.even + roll, odd |-> t.odd]
    ELSE [even |-> t.even, odd |-> roll]

\* One iteration of roll_dice's collecting loop on the totals
\* [even |-> even_total, odd |-> odd_total].
Tally(t, roll) ==
    IF roll % 2 = 0
    THEN [even |-> t.even + roll, odd |-> t.odd]
    ELSE [even |-> t.even, odd |-> t.odd + roll]

Score(s, r) == [kind |-> "Score", score |-> s, round |-> r]

Message(m, r) == [kind |-> "Message", text |-> m, round |-> r]

\* The number of die threads that still hold their clone of roll_dice's
\* sender.
HoldingSender == die["running"] + die["sent"]

\* NoDieSender counting only spawn_die's own sender, not the clones.
NoDieSender_ownOnly == ~live["tx"]

\* Every sender of roll_dice's channel has been dropped.
NoDieSender == ~live["tx"] /\ HoldingSender = 0

----------------------------------------------------------------------------
Init ==
    /\ starting_hand \in [number_of_dice : (-1)..I32_MAX,
                          number_of_sides : 0..MaxSides]
    /\ main_pc = "send_start"
    /\ total_score = 0
    /\ hand_pc = "unspawned"
    /\ number_of_dice = 0
    /\ eval_pc = "unspawned"
    /\ dice_totals = [even |-> 0, odd |-> 0]
    /\ next_hand = 0
    /\ q_hand = <<>>
    /\ q_total = <<>>
    /\ q_update = <<>>
    /\ q_die = <<>>
    /\ live = [e \in Ends |-> e \notin {"tx", "rx"}]
    /\ spawned = 0
    /\ die = NoDice
    /\ odd_total = 0
    /\ even_total = 0
    /\ round = 0
    /\ arrival = <<>>
    /\ round_totals = <<>>
    /\ eval_round = 0
    /\ received = <<>>
    /\ finished = FALSE
    /\ failed = FALSE
    /\ StoreIdle

mainVars == <<main_pc, total_score, received>>

handVars == <<hand_pc, number_of_dice, spawned, odd_total, even_total,
              round, arrival, round_totals>>

evalVars == <<eval_pc, dice_totals, next_hand, eval_round, finished>>

----------------------------------------------------------------------------
(* The session thread: game_loop's own body. *)

\* tx_hand.send(number_of_dice).unwrap()
MainSendStart ==
    /\ main_pc = "send_start"
    /\ q_hand' = Append(q_hand, starting_hand.number_of_dice)
    /\ main_pc' = "spawn_hand"
    /\ UNCHANGED <<storeVars, starting_hand, total_score, received, handVars, evalVars,
                   q_total, q_update, q_die, live, die, failed>>

\* thread::spawn of the hand thread
MainSpawnHand ==
    /\ main_pc = "spawn_hand"
    /\ hand_pc' = "recv"
    /\ main_pc' = "spawn_eval"
    /\ UNCHANGED <<storeVars, starting_hand, total_score, received, number_of_dice,
                   spawned, odd_total, even_total, round, arrival,
                   round_totals, evalVars, q_hand, q_total, q_update, q_die,
                   live, die, failed>>

\* thread::spawn of the evaluation thread
MainSpawnEval ==
    /\ main_pc = "spawn_eval"
    /\ eval_pc' = "recv"
    /\ main_pc' = "tally"
    /\ UNCHANGED <<storeVars, starting_hand, total_score, received, handVars,
                   dice_totals, next_hand, eval_round, finished,
                   q_hand, q_total, q_update, q_die, live, die, failed>>

\* Apply with `=` written for `+=`.
Apply_overwrite(score, update) ==
    IF update.kind = "Score" THEN update.score ELSE score

\* Apply with the narration counted as a point.
Apply_narrationCounts(score, update) ==
    IF update.kind = "Score" THEN score + update.score ELSE score + 1

\* The body of `for update in rx_update`.
Apply(score, update) ==
    IF update.kind = "Score" THEN score + update.score ELSE score

MainTally ==
    /\ main_pc = "tally"
    /\ q_update # <<>>
    /\ total_score' = Apply(total_score, Head(q_update))
    /\ received' = Append(received, Head(q_update))
    /\ q_update' = Tail(q_update)
    /\ UNCHANGED <<storeVars, starting_hand, main_pc, handVars, evalVars, q_hand,
                   q_total, q_die, live, die, failed>>

\* rx_update reports end-of-stream: the loop ends and game_loop returns.
MainReturn_onEmptyQueue ==
    /\ main_pc = "tally"
    /\ q_update = <<>>
    /\ main_pc' = "returned"
    /\ live' = Drop(live, {"rx_update"})
    /\ UNCHANGED <<storeVars, starting_hand, total_score, received, handVars, evalVars,
                   q_hand, q_total, q_update, q_die, die, failed>>

MainReturn ==
    /\ main_pc = "tally"
    /\ q_update = <<>>
    /\ ~live["tx_update"]
    /\ main_pc' = "returned"
    /\ live' = Drop(live, {"rx_update"})
    /\ UNCHANGED <<storeVars, starting_hand, total_score, received, handVars, evalVars,
                   q_hand, q_total, q_update, q_die, die, failed>>

----------------------------------------------------------------------------
(* The hand thread, with roll_dice and spawn_die inlined. *)

\* `for number_of_dice in rx_hand` yields a value; roll_dice creates its
\* channel and calls spawn_die.
HandRecv ==
    /\ hand_pc = "recv"
    /\ q_hand # <<>>
    /\ round < MaxRounds
    /\ number_of_dice' = Head(q_hand)
    /\ q_hand' = Tail(q_hand)
    /\ live' = Create(live, {"tx", "rx"})
    /\ q_die' = <<>>
    /\ die' = NoDice
    /\ spawned' = 0
    /\ arrival' = <<>>
    /\ round' = round + 1
    /\ hand_pc' = "spawn_die"
    /\ UNCHANGED <<storeVars, starting_hand, mainVars, evalVars, q_total, q_update,
                   odd_total, even_total, round_totals, failed>>

\* rx_hand reports end-of-stream: the hand thread's closure returns.
HandClosed ==
    /\ hand_pc = "recv"
    /\ q_hand = <<>>
    /\ ~live["tx_hand"]
    /\ hand_pc' = "done"
    /\ live' = Drop(live, {"rx_hand", "tx_total"})
    /\ UNCHANGED <<storeVars, starting_hand, mainVars, evalVars, number_of_dice, spawned,
                   odd_total, even_total, round, arrival, round_totals,
                   q_hand, q_total, q_update, q_die, die, failed>>

\* One iteration of spawn_die's loop: clone the sender, spawn a die thread.
SpawnDie ==
    /\ hand_pc = "spawn_die"
    /\ spawned < number_of_dice
    /\ spawned' = spawned + 1
    /\ die' = [die EXCEPT !["running"] = @ + 1]
    /\ UNCHANGED <<storeVars, starting_hand, mainVars, evalVars, hand_pc, number_of_dice,
                   odd_total, even_total, round, arrival, round_totals,
                   q_hand, q_total, q_update, q_die, live, failed>>

\* thread::spawn panics in spawn_die (the OS cannot create the thread):
\* the hand thread unwinds, dropping roll_dice's tx and rx and the
\* closure's rx_hand and tx_total.
SpawnFail ==
    /\ hand_pc = "spawn_die"
    /\ spawned < number_of_dice
    /\ hand_pc' = "panicked"
    /\ live' = Drop(live, {"tx", "rx", "rx_hand", "tx_total"})
    /\ failed' = TRUE
    /\ UNCHANGED <<storeVars, starting_hand, mainVars, evalVars, number_of_dice, spawned,
                   odd_total, even_total, round, arrival, round_totals,
                   q_hand, q_total, q_update, q_die, die>>

\* spawn_die returns, dropping tx; roll_dice initialises its accumulators.
SpawnReturn_keepsSender ==
    /\ hand_pc = "spawn_die"
    /\ spawned >= number_of_dice
    /\ odd_total' = 0
    /\ even_total' = 0
    /\ hand_pc' = "collect"
    /\ UNCHANGED <<storeVars, starting_hand, mainVars, evalVars, number_of_dice, spawned,
                   round, arrival, round_totals, q_hand, q_total, q_update,
                   q_die, die, failed, live>>

SpawnReturn ==
    /\ hand_pc = "spawn_die"
    /\ spawned >= number_of_dice
    /\ live' = Drop(live, {"tx"})
    /\ odd_total' = 0
    /\ even_total' = 0
    /\ hand_pc' = "collect"
    /\ UNCHANGED <<storeVars, starting_hand, mainVars, evalVars, number_of_dice, spawned,
                   round, arrival, round_totals, q_hand, q_total, q_update,
                   q_die, die, failed>>

\* One iteration of `for recieved_roll in rx`.
Collect ==
    /\ hand_pc = "collect"
    /\ q_die # <<>>
    /\ LET t == Tally([even |-> even_total, odd |-> odd_total], Head(q_die))
       IN  /\ even_total' = t.even
           /\ odd_total' = t.odd
    /\ arrival' = Append(arrival, Head(q_die))
    /\ q_die' = Tail(q_die)
    /\ UNCHANGED <<storeVars, starting_hand, mainVars, evalVars, hand_pc, number_of_dice,
                   spawned, round, round_totals, q_hand, q_total, q_update,
                   live, die, failed>>

\* rx reports end-of-stream: roll_dice returns its DiceRollTotal.
RollReturn ==
    /\ hand_pc = "collect"
    /\ q_die = <<>>
    /\ NoDieSender
    /\ round_totals' = Append(round_totals,
                              [even |-> even_total, odd |-> odd_total])
    /\ live' = Drop(live, {"rx"})
    /\ hand_pc' = "send_total"
    /\ UNCHANGED <<storeVars, starting_hand, mainVars, evalVars, number_of_dice, spawned,
                   odd_total, even_total, round, arrival, q_hand, q_total,
                   q_update, q_die, die, failed>>

\* tx_total.send(dice_totals).unwrap()
HandSend ==
    /\ hand_pc = "send_total"
    /\ IF live["rx_total"]
       THEN /\ q_total' = Append(q_total,
                                 [even |-> even_total, odd |-> odd_total])
            /\ hand_pc' = "recv"
            /\ UNCHANGED <<live, failed>>
       ELSE /\ hand_pc' = "panicked"
            /\ live' = Drop(live, {"rx_hand", "tx_total"})
            /\ failed' = TRUE
            /\ UNCHANGED q_total
    /\ UNCHANGED <<storeVars, starting_hand, mainVars, evalVars, number_of_dice, spawned,
                   odd_total, even_total, round, arrival, round_totals,
                   q_hand, q_update, q_die, die>>

----------------------------------------------------------------------------
(* A die thread (the closure spawned in spawn_die). *)

\* Dice::new(hand.number_of_sides), then tx_die.send(dice).unwrap().
\* Dice::new panics when the range is empty; the unwrap panics when rx has
\* been dropped.  Either panic drops tx_die.
DieRoll ==
    /\ die["running"] > 0
    /\ IF Dice_new(starting_hand.number_of_sides) = {}
       THEN /\ die' = Move(die, "running", "panicked")
            /\ failed' = TRUE
            /\ UNCHANGED q_die
       ELSE \E value \in Dice_new(starting_hand.number_of_sides) :
              IF live["rx"]
              THEN /\ q_die' = Append(q_die, value)
                   /\ die' = Move(die, "running", "sent")
                   /\ UNCHANGED failed
              ELSE /\ die' = Move(die, "running", "panicked")
                   /\ failed' = TRUE
                   /\ UNCHANGED q_die
    /\ UNCHANGED <<storeVars, starting_hand, mainVars, handVars, evalVars, q_hand,
                   q_total, q_update, live>>

\* The closure returns, dropping tx_die.
DieExit ==
    /\ die["sent"] > 0
    /\ die' = Move(die, "sent", "done")
    /\ UNCHANGED <<storeVars, starting_hand, mainVars, handVars, evalVars, q_hand,
                   q_total, q_update, q_die, live, failed>>

----------------------------------------------------------------------------
(* The evaluation thread. *)

\* `for dice_totals in rx_total` yields a value.
EvalRecv ==
    /\ eval_pc = "recv"
    /\ q_total # <<>>
    /\ dice_totals' = Head(q_total)
    /\ q_total' = Tail(q_total)
    /\ eval_round' = eval_round + 1
    /\ eval_pc' = "send_score"
    /\ UNCHANGED <<storeVars, starting_hand, mainVars, handVars, next_hand, finished,
                   q_hand, q_update, q_die, live, die, failed>>

\* rx_total reports end-of-stream: the closure returns, dropping rx_total,
\* tx_update and tx_hand.
EvalClosed ==
    /\ eval_pc = "recv"
    /\ q_total = <<>>
    /\ ~live["tx_total"]
    /\ eval_pc' = "done"
    /\ live' = Drop(live, {"rx_total", "tx_update", "tx_hand"})
    /\ UNCHANGED <<storeVars, starting_hand, mainVars, handVars, dice_totals, next_hand,
                   eval_round, finished, q_hand, q_total, q_update, q_die,
                   die, failed>>

\* tx_update.send(update).unwrap() followed by a move to position `to`.
SendUpdate(update, to) ==
    IF live["rx_update"]
    THEN /\ q_update' = Append(q_update, update)
         /\ eval_pc' = to
         /\ UNCHANGED <<live, failed>>
    ELSE /\ eval_pc' = "panicked"
         /\ live' = Drop(live, {"rx_total", "tx_update", "tx_hand"})
         /\ failed' = TRUE
         /\ UNCHANGED q_update

\* EvalSendScore with the two sends written in the other order.
EvalSendScore_afterSplit ==
    /\ eval_pc = "send_score"
    /\ live["rx_update"]
    /\ q_update' = q_update \o
                      <<Message(<<"Rolled", dice_totals.even, dice_totals.odd>>,
                                eval_round),
                        Score(sum(dice_totals), eval_round)>>
    /\ eval_pc' = "match"
    /\ UNCHANGED <<storeVars, starting_hand, mainVars, handVars, dice_totals, next_hand,
                   eval_round, finished, q_hand, q_total, q_die, die, live,
                   failed>>

\* tx_update.send(GameUpdate::Score(dice_totals.sum())).unwrap()
EvalSendScore ==
    /\ eval_pc = "send_score"
    /\ SendUpdate(Score(sum(dice_totals), eval_round), "send_split")
    /\ UNCHANGED <<storeVars, starting_hand, mainVars, handVars, dice_totals, next_hand,
                   eval_round, finished, q_hand, q_total, q_die, die>>

\* tx_update.send(GameUpdate::Message("Rolled total scores of ...")).unwrap()
EvalSendSplit ==
    /\ eval_pc = "send_split"
    /\ SendUpdate(Message(<<"Rolled", dice_totals.even, dice_totals.odd>>,
                          eval_round), "match")
    /\ UNCHANGED <<storeVars, starting_hand, mainVars, handVars, dice_totals, next_hand,
                   eval_round, finished, q_hand, q_total, q_die, die>>

\* The arm `0 =>`: the terminal narration.
EvalSendOver ==
    /\ eval_pc = "match"
    /\ MatchValue(dice_totals) = 0
    /\ SendUpdate(Message(<<"No more dice">>, eval_round), "break")
    /\ finished' = TRUE
    /\ UNCHANGED <<storeVars, starting_hand, mainVars, handVars, dice_totals, next_hand,
                   eval_round, q_hand, q_total, q_die, die>>

\* EvalBreak with tx_hand leaked instead of dropped.
EvalBreak_keepsHandSender ==
    /\ eval_pc = "break"
    /\ eval_pc' = "done"
    /\ live' = Drop(live, {"rx_total", "tx_update"})
    /\ UNCHANGED <<storeVars, starting_hand, mainVars, handVars, dice_totals, next_hand,
                   eval_round, finished, q_hand, q_total, q_update, q_die,
                   die, failed>>

\* `break`: the closure returns, dropping rx_total, tx_update and tx_hand.
EvalBreak ==
    /\ eval_pc = "break"
    /\ eval_pc' = "done"
    /\ live' = Drop(live, {"rx_total", "tx_update", "tx_hand"})
    /\ UNCHANGED <<storeVars, starting_hand, mainVars, handVars, dice_totals, next_hand,
                   eval_round, finished, q_hand, q_total, q_update, q_die,
                   die, failed>>

\* The arm `next_hand =>`: the "Rolling next hand" narration.
EvalSendRolling ==
    /\ eval_pc = "match"
    /\ MatchValue(dice_totals) # 0
    /\ next_hand' = MatchValue(dice_totals)
    /\ SendUpdate(Message(<<"Rolling next", MatchValue(dice_totals)>>,
                          eval_round), "send_hand")
    /\ UNCHANGED <<storeVars, starting_hand, mainVars, handVars, dice_totals,
                   eval_round, finished, q_hand, q_total, q_die, die>>

\* tx_hand.send(next_hand).unwrap()
EvalSendHand ==
    /\ eval_pc = "send_hand"
    /\ IF live["rx_hand"]
       THEN /\ q_hand' = Append(q_hand, next_hand)
            /\ eval_pc' = "recv"
            /\ UNCHANGED <<live, failed>>
       ELSE /\ eval_pc' = "panicked"
            /\ live' = Drop(live, {"rx_total", "tx_update", "tx_hand"})
            /\ failed' = TRUE
            /\ UNCHANGED q_hand
    /\ UNCHANGED <<storeVars, starting_hand, mainVars, handVars, dice_totals, next_hand,
                   eval_round, finished, q_total, q_update, q_die, die>>

----------------------------------------------------------------------------
Main == MainSendStart \/ MainSpawnHand \/ MainSpawnEval \/ MainTally
        \/ MainReturn

Hand == HandRecv \/ HandClosed \/ SpawnDie \/ SpawnFail \/ SpawnReturn
        \/ Collect \/ RollReturn \/ HandSend

Dice == DieRoll \/ DieExit

Eval == EvalRecv \/ EvalClosed \/ EvalSendScore \/ EvalSendSplit
        \/ EvalSendOver \/ EvalBreak \/ EvalSendRolling \/ EvalSendHand

Next == Main \/ Hand \/ Dice \/ Eval

Spec == Init /\ [][Next]_vars

\* Every thread is an OS thread and keeps being scheduled while it can run.
FairSpec ==
    /\ Spec
    /\ WF_vars(Main)
    /\ WF_vars(Hand)
    /\ WF_vars(Eval)
    /\ WF_vars(DieRoll)
    /\ WF_vars(DieExit)

----------------------------------------------------------------------------
(* Helpers of the properties. *)

RECURSIVE SumOfRounds(_)
SumOfRounds(ts) ==
    IF ts = <<>> THEN 0
    ELSE ts[1].even + ts[1].odd + SumOfRounds(Tail(ts))

\* Every update sent so far, in sending order.
Sent == received \o q_update

ScoresOf(h, r) == {i \in DOMAIN h : h[i].kind = "Score" /\ h[i].round = r}

MessagesOf(h, r) == {i \in DOMAIN h : h[i].kind = "Message" /\ h[i].round = r}

\* In history h, every narration of round r comes after a score of round r.
ScoreFirst(h, r) ==
    \A j \in MessagesOf(h, r) : \E i \in ScoresOf(h, r) : i < j

----------------------------------------------------------------------------
\* C1: when game_loop has returned, total_score is the sum of even + odd
\* over every DiceRollTotal that roll_dice returned during the game.
C1_ScoreIsSumOfRounds ==
    main_pc = "returned" => total_score = SumOfRounds(round_totals)

C1_Witness ==
    /\ main_pc = "returned"
    /\ Len(round_totals) = 2
    /\ round_totals[1].even + round_totals[1].odd > 0
    /\ round_totals[2].even + round_totals[2].odd > 0
    /\ total_score = SumOfRounds(round_totals)

\* C2: for every round the evaluation thread received, at most one Score
\* update was sent, exactly one once the round's first send is done, it
\* carries the round's even + odd, it precedes every Message of the round,
\* and the session receives the updates in that order.
C2_OneScoreBeforeNarration ==
    \A r \in 1..eval_round :
        /\ Cardinality(ScoresOf(Sent, r)) =
              (IF r = eval_round /\ eval_pc = "send_score" THEN 0 ELSE 1)
        /\ \A i \in ScoresOf(Sent, r) :
              Sent[i].score = round_totals[r].even + round_totals[r].odd
        /\ ScoreFirst(Sent, r)
        /\ ScoreFirst(received, r)
        /\ Cardinality(ScoresOf(received, r)) <= 1

C2_Witness ==
    /\ eval_round = 2
    /\ Cardinality(MessagesOf(received, 1)) = 2
    /\ Cardinality(MessagesOf(received, 2)) = 2
    /\ Cardinality(ScoresOf(received, 2)) = 1

\* C3: while the hand thread resolves round N+1 (N >= 1), the evaluation
\* thread has sent the three updates of round N and the next-hand request
\* and waits for the next DiceRollTotal; and whenever the hand thread is
\* outside roll_dice (so whenever a round can begin) no die thread of an
\* earlier round still holds its sender.
C3_RoundsSequential ==
    /\ (hand_pc \in {"spawn_die", "collect", "send_total"} /\ round >= 2) =>
          /\ eval_pc = "recv"
          /\ eval_round = round - 1
          /\ Cardinality(ScoresOf(Sent, round - 1)) = 1
          /\ Cardinality(MessagesOf(Sent, round - 1)) = 2
          /\ q_hand = <<>>
          /\ q_total = <<>>
    /\ hand_pc \in {"recv", "send_total", "done"} => HoldingSender = 0

C3_Witness ==
    /\ hand_pc = "collect"
    /\ round = 2
    /\ HoldingSender > 0
    /\ eval_pc = "recv"

Min(a, b) == IF a < b THEN a ELSE b

Max(a, b) == IF a > b THEN a ELSE b

\* odd - even of the round the evaluation thread is working on
Diff == dice_totals.odd - dice_totals.even

\* odd - even of the r-th DiceRollTotal returned
DiffOf(r) == round_totals[r].odd - round_totals[r].even

\* The hand thread is rolling a hand requested by the evaluation thread.
RollingRequested == hand_pc \in {"spawn_die", "collect"} /\ round >= 2

----------------------------------------------------------------------------
\* C4 as stated: a difference odd - even <= 0 ends the game with no hand
\* requested, and a positive difference is itself the next number of dice,
\* whatever its size.
C4_Original ==
    /\ eval_pc = "break" => Diff <= 0
    /\ finished => q_hand = <<>>
    /\ eval_pc = "send_hand" => (Diff > 0 /\ next_hand = Diff)
    /\ RollingRequested => number_of_dice = DiffOf(round - 1)

\* C4 (amended): a difference odd - even <= 0 ends the game with no hand
\* requested, and a positive difference d makes min(d, i32::MAX) the next
\* number of dice.
C4_NextHandClamped ==
    /\ eval_pc = "break" => Diff <= 0
    /\ finished => q_hand = <<>>
    /\ eval_pc = "send_hand" => (Diff > 0 /\ next_hand = Min(Diff, I32_MAX))
    /\ RollingRequested =>
          (DiffOf(round - 1) > 0
           /\ number_of_dice = Min(DiffOf(round - 1), I32_MAX))

C4_Witness ==
    /\ RollingRequested
    /\ DiffOf(round - 1) > I32_MAX
    /\ number_of_dice = I32_MAX

\* Every thread has stopped and every channel end has been dropped.
AllStopped ==
    /\ eval_pc = "done"
    /\ hand_pc = "done"
    /\ main_pc = "returned"
    /\ \A e \in Ends : ~live[e]

\* C5: once the evaluation thread has taken the `0 =>` arm, eventually it
\* has dropped its senders, the hand thread has ended and game_loop has
\* returned; and from then on no stage panics: the hand thread and the
\* session end only on an empty channel whose senders are all dropped.
C5_TerminationCascade ==
    /\ finished ~> AllStopped
    /\ [](finished =>
            /\ hand_pc # "panicked"
            /\ eval_pc # "panicked"
            /\ hand_pc = "done" => (q_hand = <<>> /\ ~live["tx_hand"])
            /\ main_pc = "returned" =>
                  (q_update = <<>> /\ ~live["tx_update"]))

C5_Witness == finished /\ AllStopped /\ Len(round_totals) = 2

\* C6 as stated, for a starting hand of at least one die with at least one
\* side: game_loop has returned only if the evaluation thread took the
\* `0 =>` arm and the session received its terminal narration.
C6_ReturnsOnlyAfterFinished ==
    (/\ main_pc = "returned"
     /\ starting_hand.number_of_dice >= 1
     /\ starting_hand.number_of_sides >= 1) =>
        /\ finished
        /\ \E i \in DOMAIN received :
              /\ received[i].kind = "Message"
              /\ received[i].text = <<"No more dice">>

\* C7 as stated: a DiceRollTotal returned by roll_dice is made of one value
\* per die of the hand, and game_loop does not return normally from a game
\* in which a roll thread failed (stated for dice of at least one side,
\* where the only failure is a thread that cannot be spawned).
C7_NoPartialRound ==
    /\ hand_pc = "send_total" => Len(arrival) = Max(number_of_dice, 0)
    /\ (main_pc = "returned" /\ starting_hand.number_of_sides >= 1) => ~failed

----------------------------------------------------------------------------
RECURSIVE SumWhere(_, _)
\* The sum of the values of s whose remainder modulo 2 is parity.
SumWhere(s, parity) ==
    IF s = <<>> THEN 0
    ELSE (IF s[1] % 2 = parity THEN s[1] ELSE 0) + SumWhere(Tail(s), parity)

RECURSIVE RollTotal(_, _)
\* roll_dice's collecting loop run on the arrival order s from totals t.
RollTotal(t, s) ==
    IF s = <<>> THEN t ELSE RollTotal(Tally(t, s[1]), Tail(s))

Perms(n) == {p \in [1..n -> 1..n] : \A i, j \in 1..n : p[i] = p[j] => i = j}

\* roll_dice has just returned.
Rolled == hand_pc = "send_total"

\* C8: with number_of_sides = 1 and number_of_dice >= 0, roll_dice returns
\* even = 0 and odd = number_of_dice, having spawned number_of_dice die
\* threads, each of which delivered one value 1 and ended.
C8_OneSidedDice ==
    (Rolled /\ starting_hand.number_of_sides = 1 /\ number_of_dice >= 0) =>
        /\ even_total = 0
        /\ odd_total = number_of_dice
        /\ round_totals[Len(round_totals)] =
              [even |-> 0, odd |-> number_of_dice]
        /\ spawned = number_of_dice
        /\ arrival = [i \in 1..number_of_dice |-> 1]
        /\ die = [NoDice EXCEPT !["done"] = number_of_dice]

C8_Witness ==
    /\ Rolled
    /\ starting_hand.number_of_sides = 1
    /\ number_of_dice = I32_MAX
    /\ odd_total = I32_MAX
    /\ round = 2

\* C9: with number_of_sides >= 1 every die value sent or received lies in
\* 1..number_of_sides; while roll_dice collects and when it returns,
\* even_total is the sum of the even values received and odd_total the sum
\* of the odd ones; a returned one-die round is (v, 0) with v even or
\* (0, v) with v odd.
C9_ValuesClassified ==
    starting_hand.number_of_sides >= 1 =>
        /\ \A i \in DOMAIN q_die :
              q_die[i] \in 1..starting_hand.number_of_sides
        /\ \A i \in DOMAIN arrival :
              arrival[i] \in 1..starting_hand.number_of_sides
        /\ hand_pc \in {"collect", "send_total"} =>
              /\ even_total = SumWhere(arrival, 0)
              /\ odd_total = SumWhere(arrival, 1)
        /\ (Rolled /\ number_of_dice = 1) =>
              /\ Len(arrival) = 1
              /\ \/ (arrival[1] % 2 = 0 /\ even_total = arrival[1]
                                        /\ odd_total = 0)
                 \/ (arrival[1] % 2 = 1 /\ even_total = 0
                                        /\ odd_total = arrival[1])

C9_Witness ==
    /\ Rolled
    /\ arrival = <<2, 3>>
    /\ even_total = 2
    /\ odd_total = 3

\* C10: the DiceRollTotal roll_dice returns is what its collecting loop
\* gives on every reordering of the values it received.
C10_OrderIndependent ==
    Rolled =>
        \A p \in Perms(Len(arrival)) :
            RollTotal([even |-> 0, odd |-> 0],
                      [i \in 1..Len(arrival) |-> arrival[p[i]]])
              = [even |-> even_total, odd |-> odd_total]

C10_Witness ==
    /\ Rolled
    /\ arrival = <<3, 1>>
    /\ odd_total = 4

----------------------------------------------------------------------------
(***************************************************************************)
(* The game round by round.  GameSpec runs the same pipeline with each     *)
(* stage's work on one message taken as one step: the hand thread's        *)
(* iteration (receive a hand, roll_dice, send the totals) and the          *)
(* evaluation thread's iteration together with the session's tally of its  *)
(* Score.  It has no die threads, so hands need not be small: the hands    *)
(* are those of tests::game_logic_test and i32::MAX keeps its value.       *)
(* Every thread::spawn succeeds in GameSpec.                               *)
(***************************************************************************)

\* i32::MAX
I32_MAX_UNSCALED == 2147483647

\* The largest hand and the number of sides of tests::game_logic_test.
TestDice == 6

TestSides == 2

\* Cap on the rounds GameSpec plays.
MaxGameRounds == 3

\* MatchValue clamped to 1, not 0, from below.
MatchValueUnscaled_atLeastOne(t) ==
    Clamp(parity_difference(t), 1, I32_MAX_UNSCALED)

\* parity_difference().clamp(0, i32::MAX as i64) as i32
MatchValueUnscaled(t) == Clamp(parity_difference(t), 0, I32_MAX_UNSCALED)

GameInit ==
    /\ starting_hand \in [number_of_dice : 1..TestDice,
                          number_of_sides : 1..TestSides]
    /\ main_pc = "tally"
    /\ total_score = 0
    /\ hand_pc = "recv"
    /\ number_of_dice = 0
    /\ eval_pc = "recv"
    /\ dice_totals = [even |-> 0, odd |-> 0]
    /\ next_hand = 0
    /\ q_hand = <<starting_hand.number_of_dice>>
    /\ q_total = <<>>
    /\ q_update = <<>>
    /\ q_die = <<>>
    /\ live = [e \in Ends |-> e \notin {"tx", "rx"}]
    /\ spawned = 0
    /\ die = NoDice
    /\ odd_total = 0
    /\ even_total = 0
    /\ round = 0
    /\ arrival = <<>>
    /\ round_totals = <<>>
    /\ eval_round = 0
    /\ received = <<>>
    /\ finished = FALSE
    /\ failed = FALSE
    /\ StoreIdle

\* One iteration of the hand thread: receive a hand, roll it, send the
\* totals.  rolls is the values of the hand's dice in arrival order.
GameRoll ==
    /\ q_hand # <<>>
    /\ round < MaxGameRounds
    /\ number_of_dice' = Head(q_hand)
    /\ q_hand' = Tail(q_hand)
    /\ round' = round + 1
    /\ \E rolls \in [1..Head(q_hand) ->
                        Dice_new(starting_hand.number_of_sides)] :
         LET t == RollTotal([even |-> 0, odd |-> 0], rolls)
         IN  /\ even_total' = t.even
             /\ odd_total' = t.odd
             /\ round_totals' = Append(round_totals, t)
             /\ q_total' = Append(q_total, t)
    /\ UNCHANGED <<storeVars, starting_hand, mainVars, evalVars, hand_pc, spawned,
                   arrival, q_update, q_die, live, die, failed>>

\* One iteration of the evaluation thread, with the session's tally of the
\* Score it sends.
GameEval ==
    /\ q_total # <<>>
    /\ dice_totals' = Head(q_total)
    /\ q_total' = Tail(q_total)
    /\ eval_round' = eval_round + 1
    /\ total_score' = Apply(total_score,
                            Score(sum(Head(q_total)), eval_round + 1))
    /\ IF MatchValueUnscaled(Head(q_total)) = 0
       THEN /\ finished' = TRUE
            /\ eval_pc' = "done"
            /\ UNCHANGED <<next_hand, q_hand>>
       ELSE /\ next_hand' = MatchValueUnscaled(Head(q_total))
            /\ q_hand' = Append(q_hand, MatchValueUnscaled(Head(q_total)))
            /\ UNCHANGED <<finished, eval_pc>>
    /\ UNCHANGED <<storeVars, starting_hand, main_pc, received, handVars, q_update,
                   q_die, live, die, failed>>

\* The evaluation thread has ended: the update channel closes and
\* game_loop returns.
GameReturn ==
    /\ main_pc = "tally"
    /\ eval_pc = "done"
    /\ main_pc' = "returned"
    /\ UNCHANGED <<storeVars, starting_hand, total_score, received, handVars, evalVars,
                   q_hand, q_total, q_update, q_die, live, die, failed>>

GameNext == GameRoll \/ GameEval \/ GameReturn

GameSpec == GameInit /\ [][GameNext]_vars

StartedWith(dice, sides) ==
    starting_hand = [number_of_dice |-> dice, number_of_sides |-> sides]

Ones == [even |-> 0, odd |-> 1]

Two == [even |-> 2, odd |-> 0]

----------------------------------------------------------------------------
\* C14: every number of dice the evaluation thread sends on tx_hand is at
\* least 1: once the hand thread has taken the starting value, every
\* message on the hand channel, the hand of every round after the first
\* and the value the evaluation thread is about to send are >= 1.
C14_RequestedHandPositive ==
    /\ round >= 1 => \A i \in DOMAIN q_hand : q_hand[i] >= 1
    /\ round >= 2 => number_of_dice >= 1
    /\ eval_pc = "send_hand" => next_hand >= 1

C14_Witness ==
    /\ round = 2
    /\ hand_pc = "spawn_die"
    /\ number_of_dice = 1
    /\ starting_hand.number_of_dice = 2

\* The last update the session received.
LastReceived == received[Len(received)]

\* What a step may do to total_score.
TallyStep ==
    /\ (received' # received) =>
          /\ received' = Append(received, Head(q_update))
          /\ (LastReceived'.kind = "Message") => (total_score' = total_score)
          /\ (LastReceived'.kind = "Score") =>
                (total_score' = total_score + LastReceived'.score)
    /\ (received' = received) => (total_score' = total_score)

\* C15: a step in which the session receives a Message leaves total_score
\* unchanged, a step in which it receives a Score adds the Score's value,
\* and no other step changes total_score.
C15_OnlyScoresChangeTotal == [][TallyStep]_vars

C15_Witness ==
    /\ Len(received) >= 5
    /\ LastReceived.kind = "Message"
    /\ total_score = received[1].score + received[4].score
    /\ received[1].score > 0
    /\ received[4].score > 0

----------------------------------------------------------------------------
\* C17: when roll_dice returns, it has collected one value for each of the
\* number_of_dice die threads it spawned, and no die thread of the call
\* still holds a sender.
C17_AllDiceDelivered ==
    Rolled =>
        /\ Len(arrival) = Max(number_of_dice, 0)
        /\ die["done"] = Max(number_of_dice, 0)
        /\ NoDieSender

\* C18: a hand of 0 or fewer dice spawns no die thread; after spawn_die
\* has returned, the collecting loop has nothing to wait for (no message,
\* no sender), and roll_dice returns the totals {0, 0}.
C18_EmptyHandReturnsAtOnce ==
    (number_of_dice <= 0 /\ hand_pc \in {"spawn_die", "collect", "send_total"}) =>
        /\ spawned = 0
        /\ die = NoDice
        /\ q_die = <<>>
        /\ hand_pc = "collect" =>
              (NoDieSender /\ even_total = 0 /\ odd_total = 0)
        /\ Rolled =>
              (/\ arrival = <<>>
               /\ round_totals[Len(round_totals)] = [even |-> 0, odd |-> 0])

C18_Witness ==
    /\ Rolled
    /\ number_of_dice = -1
    /\ round_totals = <<[even |-> 0, odd |-> 0]>>
    /\ ~failed

\* C19: as long as no thread has panicked, every thread that is about to
\* send finds the receiver of its channel alive, so the first panic of a
\* game is never one of the send(..).unwrap() calls.
C19_SendsFindReceiver ==
    ~failed =>
        /\ main_pc = "send_start" => live["rx_hand"]
        /\ hand_pc = "send_total" => live["rx_total"]
        /\ eval_pc \in {"send_score", "send_split", "match"} => live["rx_update"]
        /\ eval_pc = "send_hand" => live["rx_hand"]
        /\ die["running"] > 0 => live["rx"]

C19_Witness ==
    /\ ~failed
    /\ round = 2
    /\ die["running"] > 0
    /\ die["sent"] > 0
    /\ main_pc = "tally"

\* The rounds in flight: hand requests pending on the hand channel, the
\* round the hand thread is resolving, round totals pending on the totals
\* channel and the round the evaluation thread is evaluating.
Tokens ==
    Len(q_hand)
    + (IF hand_pc \in {"spawn_die", "collect", "send_total"} THEN 1 ELSE 0)
    + Len(q_total)
    + (IF eval_pc \in {"send_score", "send_split", "match", "send_hand"}
       THEN 1 ELSE 0)

\* C20: at most one round is in flight; from the session's first send on,
\* exactly one round is in flight until the evaluation thread has decided
\* that the game is over, and none afterwards.
\* (Stated for the hands of a playable game, at least one die with at
\* least one side.)
C20_SingleToken ==
    (starting_hand.number_of_dice >= 1 /\ starting_hand.number_of_sides >= 1) =>
        /\ Tokens <= 1
        /\ main_pc # "send_start" => Tokens = (IF finished THEN 0 ELSE 1)

----------------------------------------------------------------------------
(* The score store: save_state_to_file and read_state_from_file, as
   score_state_test calls them.  The file holds bytes; a byte is a number
   in 0..255.  Scores are the i64 values TLC can represent (32 bits), so
   the 64-bit MessagePack formats do not occur. *)

MaxScores == 2

\* The vector of score_state_test.
TestScores == <<50, 30, 20, 25, 27, 35>>

\* Scores at the boundaries of the MessagePack integer formats.
ScoreValues == {-40000, -129, -128, -33, -32, -1, 0, 20, 127, 128, 255, 256,
                65535, 65536}

RECURSIVE SeqsUpTo(_, _)
SeqsUpTo(S, n) ==
    IF n = 0 THEN {<<>>}
    ELSE LET shorter == SeqsUpTo(S, n - 1)
         IN  shorter \cup {Append(q, v) : q \in shorter, v \in S}

ScoreLists == SeqsUpTo(ScoreValues, MaxScores) \cup {TestScores}

\* The n bytes of v >= 0, most significant first.
RECURSIVE BigEndian(_, _)
BigEndian(v, n) ==
    IF n = 0 THEN <<>> ELSE Append(BigEndian(v \div 256, n - 1), v % 256)

RECURSIVE FromBigEndian(_)
FromBigEndian(bytes) ==
    IF bytes = <<>> THEN 0
    ELSE 256 * FromBigEndian(SubSeq(bytes, 1, Len(bytes) - 1))
         + bytes[Len(bytes)]

\* rmp's write_sint, which serialize_i64 calls: the shortest format that
\* holds the value (positive fixint, negative fixint, uint 8/16/32,
\* int 8/16/32).
EncodeInt(v) ==
    IF 0 <= v /\ v < 128 THEN <<v>>
    ELSE IF -32 <= v /\ v < 0 THEN <<256 + v>>
    ELSE IF 128 <= v /\ v < 256 THEN <<204>> \o BigEndian(v, 1)
    ELSE IF 256 <= v /\ v < 65536 THEN <<205>> \o BigEndian(v, 2)
    ELSE IF 65536 <= v THEN <<206>> \o BigEndian(v, 4)
    ELSE IF -128 <= v THEN <<208>> \o BigEndian(256 + v, 1)
    ELSE IF -32768 <= v THEN <<209>> \o BigEndian(65536 + v, 2)
    ELSE LET low == (v + 2147483647) + 1    \* v + 2^31
         IN  <<210, 128 + (low \div 16777216)>>
             \o BigEndian(low % 16777216, 3)

\* The array header: fixarray below 16 elements, array 16 otherwise.
EncodeLen(n) ==
    IF n < 16 THEN <<144 + n>> ELSE <<220>> \o BigEndian(n, 2)

RECURSIVE EncodeInts(_)
EncodeInts(values) ==
    IF values = <<>> THEN <<>>
    ELSE EncodeInt(Head(values)) \o EncodeInts(Tail(values))

\* rmp_serde::encode::write(&mut file, scores)
Encode(values) == EncodeLen(Len(values)) \o EncodeInts(values)

Undecodable == [ok |-> FALSE, value |-> 0, next |-> 0]

\* The n bytes of `bytes` from position pos, if they are there.
Take(bytes, pos, n) ==
    IF pos + n - 1 <= Len(bytes)
    THEN [ok |-> TRUE, value |-> FromBigEndian(SubSeq(bytes, pos, pos + n - 1)),
          next |-> pos + n]
    ELSE Undecodable

Signed(taken, modulus) ==
    IF taken.ok /\ taken.value >= modulus \div 2
    THEN [taken EXCEPT !.value = @ - modulus]
    ELSE taken

\* Deserialising one i64 whose first byte is at position pos.
DecodeInt(bytes, pos) ==
    IF pos > Len(bytes) THEN Undecodable
    ELSE LET tag == bytes[pos]
         IN  IF tag < 128 THEN [ok |-> TRUE, value |-> tag, next |-> pos + 1]
             ELSE IF tag >= 224
                  THEN [ok |-> TRUE, value |-> tag - 256, next |-> pos + 1]
             ELSE IF tag = 204 THEN Take(bytes, pos + 1, 1)
             ELSE IF tag = 205 THEN Take(bytes, pos + 1, 2)
             ELSE IF tag = 206 THEN Take(bytes, pos + 1, 4)
             ELSE IF tag = 208 THEN Signed(Take(bytes, pos + 1, 1), 256)
             ELSE IF tag = 209 THEN Signed(Take(bytes, pos + 1, 2), 65536)
             ELSE IF tag = 210
                  THEN LET top == Take(bytes, pos + 1, 1)
                           rest == Take(bytes, pos + 2, 3)
                       IN  IF ~rest.ok THEN Undecodable
                           ELSE IF top.value >= 128
                           THEN [rest EXCEPT !.value =
                                   (((top.value - 128) * 16777216 + @)
                                    - 2147483647) - 1]
                           ELSE [rest EXCEPT !.value =
                                   top.value * 16777216 + @]
             ELSE Undecodable

RECURSIVE DecodeInts(_, _, _)
DecodeInts(bytes, pos, n) ==
    IF n = 0 THEN [ok |-> TRUE, values |-> <<>>]
    ELSE LET first == DecodeInt(bytes, pos)
         IN  IF ~first.ok THEN [ok |-> FALSE, values |-> <<>>]
             ELSE LET others == DecodeInts(bytes, first.next, n - 1)
                  IN  [ok |-> others.ok,
                       values |-> <<first.value>> \o others.values]

\* rmp_serde::decode::from_read::<File, Vec<i64>>(file)
Decode(bytes) ==
    IF bytes = <<>> THEN [ok |-> FALSE, values |-> <<>>]
    ELSE LET tag == bytes[1]
         IN  IF 144 <= tag /\ tag < 160 THEN DecodeInts(bytes, 2, tag - 144)
             ELSE IF tag = 220
                  THEN LET n == Take(bytes, 2, 2)
                       IN  IF n.ok THEN DecodeInts(bytes, n.next, n.value)
                           ELSE [ok |-> FALSE, values |-> <<>>]
             ELSE [ok |-> FALSE, values |-> <<>>]

\* Vec::push in place of BTreeSet::insert: the values stay as they come.
BTreeSet_insert_push(set, v) == Append(set, v)

\* BTreeSet::insert on the set in its iteration order: v goes to its place
\* in the ascending order, unless it is there already.
BTreeSet_insert(set, v) ==
    IF \E i \in DOMAIN set : set[i] = v THEN set
    ELSE LET below == Cardinality({i \in DOMAIN set : set[i] < v})
         IN  SubSeq(set, 1, below) \o <<v>> \o SubSeq(set, below + 1, Len(set))

\* values.into_iter().collect() into a BTreeSet
RECURSIVE BTreeSet_from(_)
BTreeSet_from(values) ==
    IF values = <<>> THEN <<>>
    ELSE BTreeSet_insert(BTreeSet_from(SubSeq(values, 1, Len(values) - 1)),
                         values[Len(values)])

gameVars == <<starting_hand, main_pc, total_score, hand_pc, number_of_dice,
              eval_pc, dice_totals, next_hand, q_hand, q_total, q_update,
              q_die, live, spawned, die, odd_total, even_total, round,
              arrival, round_totals, eval_round, received, finished, failed>>

\* What the score file can hold before the test: nothing, the scores of an
\* earlier run, or bytes that are no score list.
InitialFiles == {NoFile, FileOf(Encode(<<7, 3>>)), FileOf(<<147, 1>>)}

\* score_state_test with any list for its vector; no game is running.
StoreInit ==
    /\ starting_hand = [number_of_dice |-> 0, number_of_sides |-> 0]
    /\ main_pc = "send_start"
    /\ total_score = 0
    /\ hand_pc = "unspawned"
    /\ number_of_dice = 0
    /\ eval_pc = "unspawned"
    /\ dice_totals = [even |-> 0, odd |-> 0]
    /\ next_hand = 0
    /\ q_hand = <<>>
    /\ q_total = <<>>
    /\ q_update = <<>>
    /\ q_die = <<>>
    /\ live = [e \in Ends |-> e \notin {"tx", "rx"}]
    /\ spawned = 0
    /\ die = NoDice
    /\ odd_total = 0
    /\ even_total = 0
    /\ round = 0
    /\ arrival = <<>>
    /\ round_totals = <<>>
    /\ eval_round = 0
    /\ received = <<>>
    /\ finished = FALSE
    /\ failed = FALSE
    /\ file \in InitialFiles
    /\ scores = <<>>
    /\ score_slice \in ScoreLists
    /\ store_pc = "save"
    /\ io = NoIo
    /\ NoHistory

\* save_state_to_file: File::create fails and leaves the file as it was,
\* or it truncates the file and the write puts all of the encoding there,
\* or fails after a part of it.
save_state_to_file ==
    /\ store_pc = "save"
    /\ \E created \in BOOLEAN, written \in 0..Len(Encode(score_slice)) :
          IF created
          THEN /\ file' = FileOf(SubSeq(Encode(score_slice), 1, written))
               /\ io' = [io EXCEPT !.save =
                            IF written = Len(Encode(score_slice))
                            THEN "Ok" ELSE "write_err"]
          ELSE /\ written = 0
               /\ file' = file
               /\ io' = [io EXCEPT !.save = "create_err"]
    /\ store_pc' = "read"
    /\ UNCHANGED <<gameVars, scores, score_slice, mainHistory>>

\* read_state_from_file: the decoded values as a BTreeSet, or an empty set
\* when the file cannot be opened or decoded.
read_state_from_file ==
    /\ store_pc = "read"
    /\ \E opened \in BOOLEAN :
          /\ opened => file.exists
          /\ io' = [io EXCEPT !.open = IF opened THEN "Ok" ELSE "Err"]
          /\ scores' = IF opened /\ Decode(file.bytes).ok
                       THEN BTreeSet_from(Decode(file.bytes).values)
                       ELSE <<>>
    /\ store_pc' = "done"
    /\ UNCHANGED <<gameVars, file, score_slice, mainHistory>>

StoreNext == save_state_to_file \/ read_state_from_file

StoreSpec == StoreInit /\ [][StoreNext]_vars

Values(q) == {q[i] : i \in DOMAIN q}

\* The save wrote the whole list and the read opened the file.
RoundTrip == store_pc = "done" /\ io.save = "Ok" /\ io.open = "Ok"

\* C16: when a list has been saved and read back, the set read holds
\* exactly the values of the list, iterates in strictly ascending order,
\* and its first value is the least value of the list: 20 for the vector
\* of score_state_test.
C16_ScoreRoundTrip ==
    RoundTrip =>
        /\ Values(scores) = Values(score_slice)
        /\ \A i, j \in DOMAIN scores : i < j => scores[i] < scores[j]
        /\ score_slice # <<>> =>
              (/\ scores # <<>>
               /\ \A i \in DOMAIN score_slice : scores[1] <= score_slice[i])
        /\ score_slice = TestScores => scores[1] = 20

C16_Witness ==
    /\ RoundTrip
    /\ score_slice = TestScores
    /\ scores = <<20, 25, 27, 30, 35, 50>>

----------------------------------------------------------------------------
(* main: the scores are read once, then every "start" plays a game,
   announces its score, inserts it and saves the best ten.  The score of
   a game is whatever game_loop returned; the inputs "rules", "scores" and
   unknown words change nothing and are left out. *)

MaxGames == 3

\* The n of take(n).
TopCount == 10

\* Scores game_loop may return.
GameScores == {0, 5, 55, 105, 300}

\* A score file as main leaves it with ten scores known.
FullFile == FileOf(Encode(<<100, 90, 80, 70, 60, 50, 40, 30, 20, 10>>))

\* A score file holding a score below 0.
NegativeFile == FileOf(Encode(<<-33>>))

MainFiles == InitialFiles \cup {FullFile, NegativeFile}

main_init ==
    /\ starting_hand = [number_of_dice |-> 0, number_of_sides |-> 0]
    /\ main_pc = "send_start"
    /\ total_score = 0
    /\ hand_pc = "unspawned"
    /\ number_of_dice = 0
    /\ eval_pc = "unspawned"
    /\ dice_totals = [even |-> 0, odd |-> 0]
    /\ next_hand = 0
    /\ q_hand = <<>>
    /\ q_total = <<>>
    /\ q_update = <<>>
    /\ q_die = <<>>
    /\ live = [e \in Ends |-> e \notin {"tx", "rx"}]
    /\ spawned = 0
    /\ die = NoDice
    /\ odd_total = 0
    /\ even_total = 0
    /\ round = 0
    /\ arrival = <<>>
    /\ round_totals = <<>>
    /\ eval_round = 0
    /\ received = <<>>
    /\ finished = FALSE
    /\ failed = FALSE
    /\ file \in MainFiles
    /\ scores = <<>>
    /\ score_slice = <<>>
    /\ store_pc = "main"
    /\ io = NoIo
    /\ NoHistory

\* let mut scores = read_state_from_file(SCORE_FILE_PATH)
main_read ==
    /\ store_pc = "main"
    /\ \E opened \in BOOLEAN :
          /\ opened => file.exists
          /\ io' = [io EXCEPT !.open = IF opened THEN "Ok" ELSE "Err"]
          /\ scores' = IF opened /\ Decode(file.bytes).ok
                       THEN BTreeSet_from(Decode(file.bytes).values)
                       ELSE <<>>
    /\ loaded' = scores'
    /\ store_pc' = "menu"
    /\ UNCHANGED <<gameVars, file, score_slice, played, announced>>

\* scores.last().copied().unwrap_or_default()
LastOrDefault(set) == IF set = <<>> THEN 0 ELSE set[Len(set)]

\* score > scores.last().copied().unwrap_or_default()
NewHighScore(score, set) == score > LastOrDefault(set)

RECURSIVE Reverse(_)
Reverse(q) ==
    IF q = <<>> THEN <<>> ELSE Append(Reverse(Tail(q)), Head(q))

\* TopSlice without the rev(): the first n in ascending order.
TopSlice_ascending(set, n) == SubSeq(set, 1, Min(n, Len(set)))

\* scores.iter().rev().take(n).copied().collect()
TopSlice(set, n) == SubSeq(Reverse(set), 1, Min(n, Len(set)))

\* The "start" arm: the game, the announcement, the insertion and the
\* save, which ends as in save_state_to_file.
main_start ==
    /\ store_pc = "menu"
    /\ Len(played) < MaxGames
    /\ \E score \in GameScores :
          LET inserted == BTreeSet_insert(scores, score)
              slice == TopSlice(inserted, TopCount)
          IN  /\ played' = Append(played, score)
              /\ announced' = Append(announced, NewHighScore(score, scores))
              /\ scores' = inserted
              /\ score_slice' = slice
              /\ \E created \in BOOLEAN, written \in 0..Len(Encode(slice)) :
                    IF created
                    THEN /\ file' = FileOf(SubSeq(Encode(slice), 1, written))
                         /\ io' = [io EXCEPT !.save =
                                      IF written = Len(Encode(slice))
                                      THEN "Ok" ELSE "write_err"]
                    ELSE /\ written = 0
                         /\ file' = file
                         /\ io' = [io EXCEPT !.save = "create_err"]
    /\ UNCHANGED <<gameVars, store_pc, loaded>>

\* The "exit" arm.
main_exit ==
    /\ store_pc = "menu"
    /\ store_pc' = "exited"
    /\ UNCHANGED <<gameVars, file, scores, score_slice, io, mainHistory>>

main_next == main_read \/ main_start \/ main_exit

MainSpec == main_init /\ [][main_next]_vars

\* The scores loaded at start-up and those of the first k games.
Known(k) == Values(loaded) \cup {played[i] : i \in 1..k}

\* The n largest members of S (all of S when it has no more than n).
Largest(S, n) == {x \in S : Cardinality({y \in S : y > x}) < n}

\* The last save of main wrote the whole slice.
SavedAfterGame ==
    store_pc \in {"menu", "exited"} /\ played # <<>> /\ io.save = "Ok"

\* C21: after a game whose save succeeded, the score file decodes to at
\* most ten values, all distinct, and they are the ten largest of the
\* scores loaded at start-up and the scores of the games played so far;
\* and every game was announced as a new high score exactly when its
\* score was greater than every score known before it, or greater than 0
\* when none was known.
C21_TopTenAndHighScore ==
    /\ SavedAfterGame =>
          LET stored == Decode(file.bytes)
          IN  /\ stored.ok
              /\ Len(stored.values) <= TopCount
              /\ Cardinality(Values(stored.values)) = Len(stored.values)
              /\ Values(stored.values) = Largest(Known(Len(played)), TopCount)
    /\ Len(announced) = Len(played)
    /\ \A k \in DOMAIN played :
          announced[k] <=>
            IF Known(k - 1) = {}
            THEN played[k] > 0
            ELSE \A known \in Known(k - 1) : played[k] > known

C21_Witness ==
    /\ SavedAfterGame
    /\ Len(loaded) = TopCount
    /\ played = <<105, 55>>
    /\ announced = <<TRUE, FALSE>>
    /\ Len(Decode(file.bytes).values) = TopCount
    /\ Cardinality(Known(2)) > TopCount

=============================================================================
